---- MODULE Spec2Model ----
(***************************************************************************)
(* Model of chess_pygame_ai.py: the rules engine (board, pseudo-legal move *)
(* generation, move application with auto-promotion, the greedy-capture    *)
(* opponent) and the turn loop of main() that drives it.                   *)
(*                                                                         *)
(* A board is a function 0..7 -> (0..7 -> piece code), indexed board[r][c] *)
(* as in the source; a piece code is the one-character string the source   *)
(* uses ("." for an empty cell, upper case White, lower case Black).  A    *)
(* move is the tuple <<r1, c1, r2, c2>>.  Lists are sequences, in the      *)
(* order the source builds them.                                           *)
(***************************************************************************)
EXTENDS Integers, Sequences, FiniteSets, TLC

\* ---- Configs -----------------------------------------------------------
ROWS == 8
COLS == 8

WHITE_PIECES == {"K", "Q", "R", "B", "N", "P"}
BLACK_PIECES == {"k", "q", "r", "b", "n", "p"}

\* VALUES: material values used by the AI to prefer captures.
VALUES ==
  [x \in WHITE_PIECES \cup BLACK_PIECES |->
     CASE x \in {"K", "k"} -> 0
       [] x \in {"Q", "q"} -> 9
       [] x \in {"R", "r"} -> 5
       [] x \in {"B", "b"} -> 3
       [] x \in {"N", "n"} -> 3
       [] x \in {"P", "p"} -> 1]

\* The Python value None where a tuple is expected (an unselected square,
\* the AI's answer when it has no move): the empty tuple.
None == << >>

\* The Python value None where a side is expected (side_of an empty cell).
NO_SIDE == "None"

\* list("rnbqkbnr") etc.: a row given as a tuple of codes, indexed 0..7.
RowOf(t) == [c \in 0..(COLS - 1) |-> t[c + 1]]

\* A board given as 8 rows, top row (row 0) first.
BoardOf(rows) == [r \in 0..(ROWS - 1) |-> RowOf(rows[r + 1])]

EMPTY_ROW == <<".", ".", ".", ".", ".", ".", ".", ".">>

new_board ==
  BoardOf(<< <<"r", "n", "b", "q", "k", "b", "n", "r">>,
             <<"p", "p", "p", "p", "p", "p", "p", "p">>,
             EMPTY_ROW, EMPTY_ROW, EMPTY_ROW, EMPTY_ROW,
             <<"P", "P", "P", "P", "P", "P", "P", "P">>,
             <<"R", "N", "B", "Q", "K", "B", "N", "R">> >>)

in_bounds(r, c) == 0 <= r /\ r < ROWS /\ 0 <= c /\ c < COLS

\* str.isupper / str.islower on a one-character piece code.
is_white(piece) == piece \in WHITE_PIECES

is_black(piece) == piece \in BLACK_PIECES

lower(piece) ==
  CASE piece \in {"K", "k"} -> "k"
    [] piece \in {"Q", "q"} -> "q"
    [] piece \in {"R", "r"} -> "r"
    [] piece \in {"B", "b"} -> "b"
    [] piece \in {"N", "n"} -> "n"
    [] piece \in {"P", "p"} -> "p"
    [] OTHER -> piece

side_of(piece) ==
  IF piece = "." THEN NO_SIDE
  ELSE IF is_white(piece) THEN "w" ELSE "b"

\* ---- Move generation ---------------------------------------------------

\* step_moves without the occupancy test: any cell on the board is a target.
step_moves_any(bd, r, c, side, offsets) ==
  LET cand == [i \in 1..Len(offsets) |->
                 <<r, c, r + offsets[i][1], c + offsets[i][2]>>]
      ok(m) == in_bounds(m[3], m[4])
  IN SelectSeq(cand, ok)

\* The moves of a fixed list of offsets that pass the occupancy test shared
\* by gen_knight and gen_king (out of bounds: continue; empty or not own
\* side: append), in the order of the offsets.
step_moves(bd, r, c, side, offsets) ==
  LET cand == [i \in 1..Len(offsets) |->
                 <<r, c, r + offsets[i][1], c + offsets[i][2]>>]
      ok(m) == /\ in_bounds(m[3], m[4])
               /\ \/ bd[m[3]][m[4]] = "."
                  \/ side_of(bd[m[3]][m[4]]) # side
  IN SelectSeq(cand, ok)

\* gen_pawn without the double push from the start row.
gen_pawn_single(bd, r, c, side) ==
  LET dir == IF side = "w" THEN -1 ELSE 1
      r1 == r + dir
      push == IF in_bounds(r1, c) /\ bd[r1][c] = "."
              THEN << <<r, c, r1, c>> >> ELSE << >>
      capture(dc) ==
        LET cc == c + dc
            rr == r + dir
        IN IF /\ in_bounds(rr, cc)
              /\ bd[rr][cc] # "."
              /\ side_of(bd[rr][cc]) # NO_SIDE
              /\ side_of(bd[rr][cc]) # side
           THEN << <<r, c, rr, cc>> >> ELSE << >>
  IN push \o capture(-1) \o capture(1)

gen_pawn(bd, r, c, side) ==
  LET dir == IF side = "w" THEN -1 ELSE 1
      start_row == IF side = "w" THEN 6 ELSE 1
      r1 == r + dir
      r2 == r + 2 * dir
      double == IF /\ r = start_row
                   /\ in_bounds(r2, c)
                   /\ bd[r2][c] = "."
                   /\ bd[r1][c] = "."
                THEN << <<r, c, r2, c>> >> ELSE << >>
      push == IF in_bounds(r1, c) /\ bd[r1][c] = "."
              THEN << <<r, c, r1, c>> >> \o double ELSE << >>
      capture(dc) ==
        LET cc == c + dc
            rr == r + dir
        IN IF /\ in_bounds(rr, cc)
              /\ bd[rr][cc] # "."
              /\ side_of(bd[rr][cc]) # NO_SIDE
              /\ side_of(bd[rr][cc]) # side
           THEN << <<r, c, rr, cc>> >> ELSE << >>
  IN push \o capture(-1) \o capture(1)

KNIGHT_JUMPS ==
  << <<2, 1>>, <<2, -1>>, <<-2, 1>>, <<-2, -1>>,
     <<1, 2>>, <<1, -2>>, <<-1, 2>>, <<-1, -2>> >>

gen_knight(bd, r, c, side) == step_moves(bd, r, c, side, KNIGHT_JUMPS)

\* slide_ray that stops at an enemy piece only: a friendly piece is passed
\* over instead of ending the ray.
RECURSIVE slide_ray_through(_, _, _, _, _, _, _, _)
slide_ray_through(bd, r, c, side, rr, cc, dr, dc) ==
  IF ~in_bounds(rr, cc) THEN << >>
  ELSE IF bd[rr][cc] = "."
       THEN << <<r, c, rr, cc>> >>
              \o slide_ray_through(bd, r, c, side, rr + dr, cc + dc, dr, dc)
       ELSE IF side_of(bd[rr][cc]) # side
            THEN << <<r, c, rr, cc>> >>
            ELSE slide_ray_through(bd, r, c, side, rr + dr, cc + dc, dr, dc)

\* One ray of slide_moves: from (rr, cc) onwards in direction (dr, dc).
RECURSIVE slide_ray(_, _, _, _, _, _, _, _)
slide_ray(bd, r, c, side, rr, cc, dr, dc) ==
  IF ~in_bounds(rr, cc) THEN << >>
  ELSE IF bd[rr][cc] = "."
       THEN << <<r, c, rr, cc>> >>
              \o slide_ray(bd, r, c, side, rr + dr, cc + dc, dr, dc)
       ELSE IF side_of(bd[rr][cc]) # side
            THEN << <<r, c, rr, cc>> >> ELSE << >>

RECURSIVE slide_from(_, _, _, _, _, _)
slide_from(bd, r, c, side, directions, i) ==
  IF i > Len(directions) THEN << >>
  ELSE slide_ray(bd, r, c, side, r + directions[i][1], c + directions[i][2],
                 directions[i][1], directions[i][2])
         \o slide_from(bd, r, c, side, directions, i + 1)

slide_moves(bd, r, c, side, directions) ==
  slide_from(bd, r, c, side, directions, 1)

BISHOP_DIRS == << <<1, 1>>, <<1, -1>>, <<-1, 1>>, <<-1, -1>> >>

ROOK_DIRS == << <<1, 0>>, <<-1, 0>>, <<0, 1>>, <<0, -1>> >>

QUEEN_DIRS == BISHOP_DIRS \o ROOK_DIRS

gen_bishop(bd, r, c, side) == slide_moves(bd, r, c, side, BISHOP_DIRS)

gen_rook(bd, r, c, side) == slide_moves(bd, r, c, side, ROOK_DIRS)

gen_queen(bd, r, c, side) == slide_moves(bd, r, c, side, QUEEN_DIRS)

KING_STEPS ==
  << <<-1, -1>>, <<-1, 0>>, <<-1, 1>>, <<0, -1>>,
     <<0, 1>>, <<1, -1>>, <<1, 0>>, <<1, 1>> >>

gen_king(bd, r, c, side) == step_moves(bd, r, c, side, KING_STEPS)

\* The body of generate_moves' double loop for the cell (r, c).
cell_moves(bd, r, c, side) ==
  LET piece == bd[r][c]
      p == lower(piece)
  IN IF piece = "." THEN << >>
     ELSE IF side = "w" /\ ~is_white(piece) THEN << >>
     ELSE IF side = "b" /\ ~is_black(piece) THEN << >>
     ELSE CASE p = "p" -> gen_pawn(bd, r, c, side)
            [] p = "n" -> gen_knight(bd, r, c, side)
            [] p = "b" -> gen_bishop(bd, r, c, side)
            [] p = "r" -> gen_rook(bd, r, c, side)
            [] p = "q" -> gen_queen(bd, r, c, side)
            [] p = "k" -> gen_king(bd, r, c, side)
            [] OTHER -> << >>

\* The inner loop of generate_moves: the cells of row r from column c on.
RECURSIVE row_moves(_, _, _, _)
row_moves(bd, side, r, c) ==
  IF c >= COLS THEN << >>
  ELSE cell_moves(bd, r, c, side) \o row_moves(bd, side, r, c + 1)

\* The outer loop of generate_moves: the rows from r on.
RECURSIVE scan_moves(_, _, _)
scan_moves(bd, side, r) ==
  IF r >= ROWS THEN << >>
  ELSE row_moves(bd, side, r, 0) \o scan_moves(bd, side, r + 1)

generate_moves(bd, side) == scan_moves(bd, side, 0)

\* ---- Move application --------------------------------------------------
\* apply_move that leaves the moved piece on its origin as well.
apply_move_keeps_origin(bd, mv) ==
  LET r1 == mv[1]
      c1 == mv[2]
      r2 == mv[3]
      c2 == mv[4]
      piece == bd[r1][c1]
      placed == [bd EXCEPT ![r2][c2] = piece]
      white_promoted == IF piece = "P" /\ r2 = 0
                        THEN [placed EXCEPT ![r2][c2] = "Q"] ELSE placed
  IN IF piece = "p" /\ r2 = ROWS - 1
     THEN [white_promoted EXCEPT ![r2][c2] = "q"] ELSE white_promoted

\* apply_move that tests Black's promotion row as ROWS, one row too far.
apply_move_no_black(bd, mv) ==
  LET r1 == mv[1]
      c1 == mv[2]
      r2 == mv[3]
      c2 == mv[4]
      piece == bd[r1][c1]
      cleared == [bd EXCEPT ![r1][c1] = "."]
      placed == [cleared EXCEPT ![r2][c2] = piece]
      white_promoted == IF piece = "P" /\ r2 = 0
                        THEN [placed EXCEPT ![r2][c2] = "Q"] ELSE placed
  IN IF piece = "p" /\ r2 = ROWS
     THEN [white_promoted EXCEPT ![r2][c2] = "q"] ELSE white_promoted

apply_move(bd, mv) ==
  LET r1 == mv[1]
      c1 == mv[2]
      r2 == mv[3]
      c2 == mv[4]
      piece == bd[r1][c1]
      cleared == [bd EXCEPT ![r1][c1] = "."]
      placed == [cleared EXCEPT ![r2][c2] = piece]
      white_promoted == IF piece = "P" /\ r2 = 0
                        THEN [placed EXCEPT ![r2][c2] = "Q"] ELSE placed
  IN IF piece = "p" /\ r2 = ROWS - 1
     THEN [white_promoted EXCEPT ![r2][c2] = "q"] ELSE white_promoted

\* has_moves that compares with >= instead of >.
has_moves_always(bd, side) == Len(generate_moves(bd, side)) >= 0

has_moves(bd, side) == Len(generate_moves(bd, side)) > 0

\* ---- AI ----------------------------------------------------------------

\* The score the AI gives a move: the value of the piece on its destination.
move_score(bd, m) ==
  LET target == bd[m[3]][m[4]]
  IN IF target # "." THEN VALUES[target] ELSE 0

\* The loop of ai_choose_move that, on a better score, appends the move to
\* best_moves instead of starting the list afresh.
RECURSIVE best_loop_keeps(_, _, _, _, _)
best_loop_keeps(bd, moves, i, best_score, best_moves) ==
  IF i > Len(moves) THEN best_moves
  ELSE LET m == moves[i]
           score == move_score(bd, m)
       IN IF score > best_score
          THEN best_loop_keeps(bd, moves, i + 1, score,
                               Append(best_moves, m))
          ELSE IF score = best_score
               THEN best_loop_keeps(bd, moves, i + 1, best_score,
                                    Append(best_moves, m))
               ELSE best_loop_keeps(bd, moves, i + 1, best_score,
                                    best_moves)

\* The loop of ai_choose_move over moves[i..], carrying best_score and
\* best_moves; its value is the final best_moves.
RECURSIVE best_loop(_, _, _, _, _)
best_loop(bd, moves, i, best_score, best_moves) ==
  IF i > Len(moves) THEN best_moves
  ELSE LET m == moves[i]
           score == move_score(bd, m)
       IN IF score > best_score
          THEN best_loop(bd, moves, i + 1, score, << m >>)
          ELSE IF score = best_score
               THEN best_loop(bd, moves, i + 1, best_score,
                              Append(best_moves, m))
               ELSE best_loop(bd, moves, i + 1, best_score, best_moves)

\* Every value ai_choose_move can return: None when there is no move,
\* otherwise whatever random.choice may draw.
ai_choose_move(bd, side) ==
  LET moves == generate_moves(bd, side)
      best_moves == best_loop(bd, moves, 1, -999, << >>)
  IN IF moves = << >> THEN {None}
     ELSE IF best_moves # << >>
          THEN {best_moves[i] : i \in 1..Len(best_moves)}
          ELSE {moves[i] : i \in 1..Len(moves)}

\* ---- Main game ---------------------------------------------------------
VARIABLES
  board,               \* main: board
  turn,                \* main: turn, "w" or "b"
  selected,            \* main: selected, None or <<r, c>>
  legal_for_selected,  \* main: legal_for_selected
  running,             \* main: running
  status_text,         \* main: status_text, as the list of its parts
  move,                \* main: move, the AI's last answer
  pc,                  \* where main is: "events", "ai", "check", "done"
  answer,              \* the value of the last has_moves call made alone
  applied,             \* history: the last call of apply_move
  plies                \* history: number of apply_move calls so far

vars == <<board, turn, selected, legal_for_selected, running, status_text,
          move, pc, answer, applied, plies>>

\* The parts status_text is put together from; "" is the empty list, and
\* s += part appends a part.
WHITE_OVER == "White has no moves. Game over."
BLACK_OVER == "Black has no moves. Game over."
BLACK_TOO == " | Black has no moves."

\* Bounds of the exploration.
MaxPly == 3
MaxStatus == 3

Squares == (0..(ROWS - 1)) \X (0..(COLS - 1))

\* The squares the explored clicks land on (mouse_to_square of the mouse
\* position): the d and e files.
ClickSquares == {sq \in Squares : sq[2] \in {3, 4}}

\* Whether the turn loop, at the top of the loop with the board b, an empty
\* status_text and White to move, can play m as ply number i: both sides
\* have a move (no end condition was met), an odd ply is White's, a
\* generated move (the human selects its origin and clicks its
\* destination), an even ply is Black's, one ai_choose_move can return.
playable(b, m, i) ==
  /\ has_moves(b, "w")
  /\ has_moves(b, "b")
  /\ IF i % 2 = 1
     THEN \E k \in 1..Len(generate_moves(b, "w")) :
            generate_moves(b, "w")[k] = m
     ELSE m \in ai_choose_move(b, "b")

\* The boards reached by playing the plies lo..hi of `game` from the board
\* `from`, in order (the first half, then the second half from where the
\* first ended): one board, or none when some ply cannot be played.
RECURSIVE play(_, _, _, _)
play(from, game, lo, hi) ==
  IF lo = hi
  THEN IF playable(from, game[lo], lo)
       THEN {apply_move(from, game[lo])} ELSE {}
  ELSE LET mid == (lo + hi) \div 2
       IN UNION {play(half, game, mid + 1, hi) :
                   half \in play(from, game, lo, mid)}

\* The board a game ends on (none if it cannot be played), played from the
\* initial board and with both sides still having a move at the end.
played(game) ==
  {end \in play(new_board, game, 1, Len(game)) :
     has_moves(end, "w") /\ has_moves(end, "b")}

\* Two games of play (no check rule: kings are captured like any piece).
\* The first ends, after 94 plies, with a White queen on (4, 4) against a
\* Black king on (1, 4); the second, after 80 plies, with a White king on
\* (6, 4) against a Black pawn on (5, 3).  White is to move in both.
QUEEN_ENDING_GAME ==
  << <<6, 1, 4, 1>>, <<1, 0, 3, 0>>, <<4, 1, 3, 0>>, <<0, 0, 3, 0>>,
     <<6, 3, 5, 3>>, <<3, 0, 6, 0>>, <<7, 0, 6, 0>>, <<1, 7, 2, 7>>,
     <<7, 2, 2, 7>>, <<0, 6, 2, 7>>, <<6, 5, 4, 5>>, <<1, 1, 2, 1>>,
     <<6, 6, 4, 6>>, <<2, 7, 4, 6>>, <<5, 3, 4, 3>>, <<0, 7, 6, 7>>,
     <<7, 7, 6, 7>>, <<4, 6, 6, 7>>, <<6, 4, 4, 4>>, <<6, 7, 7, 5>>,
     <<7, 4, 7, 5>>, <<1, 2, 2, 2>>, <<7, 3, 5, 3>>, <<1, 3, 3, 3>>,
     <<4, 4, 3, 3>>, <<0, 3, 3, 3>>, <<5, 3, 4, 2>>, <<3, 3, 4, 2>>,
     <<4, 5, 3, 5>>, <<4, 2, 6, 0>>, <<7, 6, 6, 4>>, <<6, 0, 7, 1>>,
     <<6, 2, 4, 2>>, <<0, 2, 3, 5>>, <<7, 5, 7, 6>>, <<7, 1, 5, 3>>,
     <<4, 2, 3, 2>>, <<5, 3, 6, 4>>, <<3, 2, 2, 1>>, <<3, 5, 4, 4>>,
     <<7, 6, 6, 5>>, <<1, 4, 3, 4>>, <<6, 5, 6, 4>>, <<3, 4, 4, 3>>,
     <<6, 4, 5, 5>>, <<1, 5, 3, 5>>, <<5, 5, 4, 4>>, <<0, 4, 1, 5>>,
     <<4, 4, 3, 5>>, <<2, 2, 3, 2>>, <<2, 1, 1, 1>>, <<0, 1, 2, 0>>,
     <<3, 5, 4, 6>>, <<1, 6, 2, 6>>, <<4, 6, 4, 7>>, <<1, 5, 0, 6>>,
     <<4, 7, 3, 7>>, <<2, 0, 1, 2>>, <<3, 7, 2, 6>>, <<0, 5, 2, 3>>,
     <<2, 6, 1, 7>>, <<4, 3, 5, 3>>, <<1, 7, 2, 7>>, <<0, 6, 0, 7>>,
     <<2, 7, 1, 6>>, <<2, 3, 1, 4>>, <<1, 1, 0, 1>>, <<0, 7, 0, 6>>,
     <<0, 1, 1, 2>>, <<1, 4, 0, 5>>, <<1, 6, 0, 5>>, <<0, 6, 0, 7>>,
     <<1, 2, 3, 2>>, <<0, 7, 0, 6>>, <<3, 2, 2, 3>>, <<5, 3, 6, 3>>,
     <<2, 3, 6, 3>>, <<0, 6, 1, 6>>, <<6, 3, 4, 1>>, <<1, 6, 0, 5>>,
     <<4, 1, 4, 2>>, <<0, 5, 0, 6>>, <<4, 2, 4, 6>>, <<0, 6, 0, 5>>,
     <<4, 6, 4, 3>>, <<0, 5, 1, 4>>, <<4, 3, 4, 0>>, <<1, 4, 0, 4>>,
     <<4, 0, 7, 3>>, <<0, 4, 1, 3>>, <<7, 3, 7, 1>>, <<1, 3, 2, 3>>,
     <<7, 1, 4, 4>>, <<2, 3, 1, 4>> >>

PAWN_ENDING_GAME ==
  << <<6, 4, 5, 4>>, <<1, 2, 3, 2>>, <<7, 6, 5, 7>>, <<1, 0, 3, 0>>,
     <<6, 6, 5, 6>>, <<1, 7, 3, 7>>, <<7, 3, 3, 7>>, <<0, 7, 3, 7>>,
     <<5, 7, 7, 6>>, <<3, 7, 6, 7>>, <<7, 7, 6, 7>>, <<1, 4, 3, 4>>,
     <<7, 5, 5, 3>>, <<0, 3, 4, 7>>, <<5, 6, 4, 7>>, <<0, 1, 2, 2>>,
     <<6, 7, 6, 6>>, <<3, 4, 4, 4>>, <<6, 6, 1, 6>>, <<0, 5, 1, 6>>,
     <<5, 3, 4, 4>>, <<1, 6, 6, 1>>, <<4, 4, 2, 2>>, <<6, 1, 7, 0>>,
     <<2, 2, 1, 1>>, <<0, 2, 1, 1>>, <<6, 3, 5, 3>>, <<1, 5, 3, 5>>,
     <<5, 4, 4, 4>>, <<3, 5, 4, 4>>, <<5, 3, 4, 4>>, <<1, 1, 4, 4>>,
     <<6, 0, 5, 0>>, <<4, 4, 6, 2>>, <<7, 2, 6, 1>>, <<7, 0, 6, 1>>,
     <<7, 6, 6, 4>>, <<6, 2, 7, 1>>, <<6, 4, 4, 5>>, <<6, 1, 5, 0>>,
     <<4, 5, 6, 6>>, <<0, 4, 0, 3>>, <<6, 5, 4, 5>>, <<3, 0, 4, 0>>,
     <<4, 7, 3, 7>>, <<0, 3, 1, 2>>, <<7, 4, 7, 3>>, <<1, 2, 0, 3>>,
     <<6, 6, 5, 4>>, <<0, 3, 0, 4>>, <<7, 3, 6, 2>>, <<0, 0, 1, 0>>,
     <<6, 2, 7, 1>>, <<0, 4, 1, 4>>, <<4, 5, 3, 5>>, <<1, 4, 2, 4>>,
     <<7, 1, 7, 0>>, <<2, 4, 3, 5>>, <<5, 4, 3, 5>>, <<1, 0, 1, 2>>,
     <<3, 5, 4, 3>>, <<3, 2, 4, 3>>, <<7, 0, 6, 0>>, <<0, 6, 2, 5>>,
     <<6, 0, 5, 0>>, <<2, 5, 3, 7>>, <<5, 0, 4, 0>>, <<3, 7, 5, 6>>,
     <<4, 0, 4, 1>>, <<1, 3, 3, 3>>, <<4, 1, 5, 0>>, <<1, 2, 6, 2>>,
     <<5, 0, 5, 1>>, <<5, 6, 6, 4>>, <<5, 1, 6, 2>>, <<4, 3, 5, 3>>,
     <<6, 2, 5, 3>>, <<3, 3, 4, 3>>, <<5, 3, 6, 4>>, <<4, 3, 5, 3>> >>

Games == {QUEEN_ENDING_GAME, PAWN_ENDING_GAME}

QUEEN_ENDING == CHOOSE b \in played(QUEEN_ENDING_GAME) : TRUE

PAWN_ENDING == CHOOSE b \in played(PAWN_ENDING_GAME) : TRUE

\* Positions the turn loop is explored from, each with White to move at the
\* top of the loop, nothing selected and an empty status_text: the initial
\* position and the positions the games above end on.
Positions == {new_board} \cup UNION {played(game) : game \in Games}

NO_CALL == [by |-> "nobody", board |-> new_board, move |-> None,
            turn |-> "w", selected |-> None]

\* legal_for that filters the moves by the row of their origin only.
legal_for_row(b, r, c) ==
  LET all_moves == generate_moves(b, "w")
      from_row(m) == m[1] = r
  IN SelectSeq(all_moves, from_row)

\* legal_for_selected as main computes it for the square (r, c).
legal_for(b, r, c) ==
  LET all_moves == generate_moves(b, "w")
      from_here(m) == m[1] = r /\ m[2] = c
  IN SelectSeq(all_moves, from_here)

\* The moves of legal_for_selected whose destination is (r, c), in order.
hits(r, c) ==
  LET to_here(m) == m[3] = r /\ m[4] = c
  IN SelectSeq(legal_for_selected, to_here)

\* (Re)selecting the clicked square: an own piece is selected with its
\* legal moves, anything else clears the selection.
select(r, c) ==
  IF board[r][c] # "." /\ is_white(board[r][c])
  THEN /\ selected' = <<r, c>>
       /\ legal_for_selected' = legal_for(board, r, c)
  ELSE /\ selected' = None
       /\ legal_for_selected' = << >>

Init ==
  /\ board \in Positions
  /\ turn = "w"
  /\ selected = None
  /\ legal_for_selected = << >>
  /\ running = TRUE
  /\ status_text = << >>
  /\ move = None
  /\ pc = "events"
  /\ answer = FALSE
  /\ applied = NO_CALL
  /\ plies = 0

\* pygame.QUIT
Quit ==
  /\ pc = "events"
  /\ running' = FALSE
  /\ UNCHANGED <<board, turn, selected, legal_for_selected, status_text,
                 move, pc, answer, applied, plies>>

\* A left click while it is not White's turn: nothing happens.
ClickNotTurn ==
  /\ pc = "events"
  /\ turn # "w"
  /\ UNCHANGED vars

\* A left click on the info panel: mouse_to_square is None.
ClickOutside ==
  /\ pc = "events"
  /\ turn = "w"
  /\ UNCHANGED vars

\* A left click on (r, c) with nothing selected.
ClickSelect(r, c) ==
  /\ pc = "events"
  /\ turn = "w"
  /\ selected = None
  /\ plies < MaxPly
  /\ select(r, c)
  /\ UNCHANGED <<board, turn, running, status_text, move, pc, answer, applied,
                 plies>>

\* A left click on (r, c), a legal destination of the selected piece.
ClickMove(r, c) ==
  /\ pc = "events"
  /\ turn = "w"
  /\ selected # None
  /\ hits(r, c) # << >>
  /\ plies < MaxPly
  /\ LET m == hits(r, c)[1]
     IN /\ board' = apply_move(board, m)
        /\ applied' = [by |-> "human", board |-> board, move |-> m,
                       turn |-> turn, selected |-> selected]
  /\ turn' = "b"
  /\ selected' = None
  /\ legal_for_selected' = << >>
  /\ status_text' = << >>
  /\ plies' = plies + 1
  /\ UNCHANGED <<running, move, pc, answer>>

\* A left click on (r, c), not a legal destination of the selected piece.
ClickReselect(r, c) ==
  /\ pc = "events"
  /\ turn = "w"
  /\ selected # None
  /\ hits(r, c) = << >>
  /\ plies < MaxPly
  /\ select(r, c)
  /\ UNCHANGED <<board, turn, running, status_text, move, pc, answer, applied,
                 plies>>

\* The events of this frame are done: the loop goes on to the AI's reply
\* (turn == 'b'), to the end check, or ends (running is false).
EndEvents ==
  /\ pc = "events"
  /\ pc' = IF ~running THEN "done" ELSE IF turn = "b" THEN "ai" ELSE "check"
  /\ UNCHANGED <<board, turn, selected, legal_for_selected, running,
                 status_text, move, answer, applied, plies>>

\* The AI has a move and plays it.
AIMove ==
  /\ pc = "ai"
  /\ plies < MaxPly
  /\ \E m \in ai_choose_move(board, "b") :
       /\ m # None
       /\ move' = m
       /\ board' = apply_move(board, m)
       /\ applied' = [by |-> "ai", board |-> board, move |-> m,
                      turn |-> turn, selected |-> selected]
  /\ turn' = "w"
  /\ plies' = plies + 1
  /\ pc' = "check"
  /\ UNCHANGED <<selected, legal_for_selected, running, status_text, answer>>

\* AINoMove that leaves status_text as it is.
AINoMove_silent ==
  /\ pc = "ai"
  /\ None \in ai_choose_move(board, "b")
  /\ move' = None
  /\ turn' = "w"
  /\ pc' = "check"
  /\ UNCHANGED <<board, selected, legal_for_selected, running, status_text,
                 answer, applied, plies>>

\* The AI has no move.
AINoMove ==
  /\ pc = "ai"
  /\ None \in ai_choose_move(board, "b")
  /\ move' = None
  /\ status_text' = << BLACK_OVER >>
  /\ turn' = "w"
  /\ pc' = "check"
  /\ UNCHANGED <<board, selected, legal_for_selected, running, answer, applied,
                 plies>>

\* status_text after the end-of-frame check of both sides.
checked_status(b, status) ==
  LET after_white == IF ~has_moves(b, "w") THEN << WHITE_OVER >> ELSE status
  IN IF ~has_moves(b, "b")
     THEN IF after_white # << >>
          THEN Append(after_white, BLACK_TOO)
          ELSE << BLACK_OVER >>
     ELSE after_white

EndCheck ==
  /\ pc = "check"
  /\ Len(checked_status(board, status_text)) <= MaxStatus
  /\ status_text' = checked_status(board, status_text)
  /\ pc' = "events"
  /\ UNCHANGED <<board, turn, selected, legal_for_selected, running, move,
                 answer, applied, plies>>

Next ==
  \/ Quit
  \/ ClickNotTurn
  \/ ClickOutside
  \/ \E sq \in ClickSquares : ClickSelect(sq[1], sq[2])
  \/ \E sq \in ClickSquares : ClickMove(sq[1], sq[2])
  \/ \E sq \in ClickSquares : ClickReselect(sq[1], sq[2])
  \/ EndEvents
  \/ AIMove
  \/ AINoMove
  \/ EndCheck

Spec == Init /\ [][Next]_vars

\* ---- The engine's functions on their own --------------------------------
\* apply_move and ai_choose_move are pure: they are applied once to a board
\* and a side drawn from the inputs below, apply_move to any move at all.

\* Pawns of both sides one step from promotion, by a push and by a capture,
\* pawns further away, and two kings next to each other.
PROMOTION_BOARD ==
  BoardOf(<< <<".", ".", ".", "r", ".", ".", ".", ".">>,
             <<".", ".", "P", ".", ".", ".", ".", ".">>,
             EMPTY_ROW,
             <<"P", ".", ".", ".", ".", ".", ".", "k">>,
             <<"p", ".", ".", ".", ".", ".", ".", "K">>,
             EMPTY_ROW,
             <<".", ".", ".", ".", ".", "p", ".", ".">>,
             <<".", ".", ".", ".", "R", ".", ".", ".">> >>)

\* Each side can capture a queen and, with other moves, lesser pieces.
CAPTURE_BOARD ==
  BoardOf(<< <<".", ".", ".", ".", "k", ".", ".", ".">>,
             <<".", ".", "P", ".", ".", ".", ".", ".">>,
             <<".", ".", ".", ".", "b", ".", ".", ".">>,
             <<".", ".", ".", "n", ".", ".", ".", ".">>,
             <<".", "q", ".", ".", ".", "R", ".", ".">>,
             <<".", ".", ".", ".", "Q", ".", ".", ".">>,
             EMPTY_ROW,
             <<".", ".", ".", ".", "K", ".", ".", ".">> >>)

EngineBoards == {new_board, PROMOTION_BOARD, CAPTURE_BOARD} \cup Positions

InitEngine ==
  /\ board \in EngineBoards
  /\ turn \in {"w", "b"}
  /\ selected = None
  /\ legal_for_selected = << >>
  /\ running = TRUE
  /\ status_text = << >>
  /\ move = None
  /\ pc = "engine"
  /\ answer = FALSE
  /\ applied = NO_CALL
  /\ plies = 0

\* board = apply_move(board, m) for any move m.
EngineApply(m) ==
  /\ pc = "engine"
  /\ board' = apply_move(board, m)
  /\ applied' = [by |-> "engine", board |-> board, move |-> m,
                 turn |-> turn, selected |-> selected]
  /\ plies' = plies + 1
  /\ pc' = "applied"
  /\ UNCHANGED <<turn, selected, legal_for_selected, running, status_text,
                 move, answer>>

\* move = ai_choose_move(board, turn)
EngineChoose ==
  /\ pc = "engine"
  /\ move' \in ai_choose_move(board, turn)
  /\ pc' = "chosen"
  /\ UNCHANGED <<board, turn, selected, legal_for_selected, running,
                 status_text, answer, applied, plies>>

NextEngine ==
  \/ \E from \in Squares, to \in Squares :
       EngineApply(<<from[1], from[2], to[1], to[2]>>)
  \/ EngineChoose

SpecEngine == InitEngine /\ [][NextEngine]_vars

\* ---- has_moves around a king -------------------------------------------
\* Boards holding one king, away from the edge, and on each of its 8
\* neighbouring cells a pawn or a knight of its side, or nothing.

\* The king's cell for either side: White's one row below the top row,
\* Black's one row above the bottom row.
king_cell(side) == IF side = "w" THEN <<1, 3>> ELSE <<ROWS - 2, 3>>

neighbours(side) ==
  {<<king_cell(side)[1] + KING_STEPS[i][1],
     king_cell(side)[2] + KING_STEPS[i][2]>> : i \in 1..Len(KING_STEPS)}

own(side, kind) == IF side = "w" THEN kind ELSE lower(kind)

\* The board with the king of `side` and the pieces `around` its cell.
king_board(side, around) ==
  [r \in 0..(ROWS - 1) |->
     [c \in 0..(COLS - 1) |->
        IF <<r, c>> = king_cell(side) THEN own(side, "K")
        ELSE IF <<r, c>> \in neighbours(side) THEN around[<<r, c>>]
        ELSE "."]]

InitKing ==
  /\ turn \in {"w", "b"}
  /\ \E around \in [neighbours(turn) -> {own(turn, "P"), own(turn, "N"), "."}] :
       board = king_board(turn, around)
  /\ selected = None
  /\ legal_for_selected = << >>
  /\ running = TRUE
  /\ status_text = << >>
  /\ move = None
  /\ pc = "king"
  /\ answer = FALSE
  /\ applied = NO_CALL
  /\ plies = 0

\* answer = has_moves(board, turn)
KingHasMoves ==
  /\ pc = "king"
  /\ answer' = has_moves(board, turn)
  /\ pc' = "answered"
  /\ UNCHANGED <<board, turn, selected, legal_for_selected, running,
                 status_text, move, applied, plies>>

NextKing == KingHasMoves

SpecKing == InitKing /\ [][NextKing]_vars

\* ---- Properties --------------------------------------------------------
Sides == {"w", "b"}

opposite(side) == IF side = "w" THEN "b" ELSE "w"

Range(seq) == {seq[i] : i \in 1..Len(seq)}

\* Number of non-empty cells of a board.
Population(b) == Cardinality({sq \in Squares : b[sq[1]][sq[2]] # "."})

\* 1 when the destination of m is occupied on b (a capture), else 0.
Captured(b, m) == IF b[m[3]][m[4]] # "." THEN 1 ELSE 0

Abs(n) == IF n < 0 THEN -n ELSE n

\* The material value of a piece code as the specification lists it.
MaterialValue(piece) ==
  CASE lower(piece) = "k" -> 0
    [] lower(piece) = "q" -> 9
    [] lower(piece) = "r" -> 5
    [] lower(piece) = "b" -> 3
    [] lower(piece) = "n" -> 3
    [] lower(piece) = "p" -> 1
    [] OTHER -> 0

\* The score of a move: the material value of what stands on its destination.
Score(b, m) == MaterialValue(b[m[3]][m[4]])

\* C1: on every board of play and for each side, every generated move lands
\* on an empty cell or on a piece of the other side, never on a friendly one.
C1_NoFriendlyDestination ==
  \A s \in Sides :
    \A m \in Range(generate_moves(board, s)) :
      \/ board[m[3]][m[4]] = "."
      \/ side_of(board[m[3]][m[4]]) = opposite(s)

\* A board of play, after two plies from the initial position, on which
\* White has a capture among its generated moves.
C1_Witness ==
  /\ plies = 2
  /\ Population(board) = Population(new_board)
  /\ \E m \in Range(generate_moves(board, "w")) : is_black(board[m[3]][m[4]])

\* C2: when the side has a move, whatever ai_choose_move returns is a
\* generated move whose score is the maximum over the generated moves; with a
\* queen capture available, it captures a queen.
C2_ChoosesMaxScore ==
  LET moves == Range(generate_moves(board, turn))
  IN (pc = "chosen" /\ moves # {}) =>
       /\ move \in moves
       /\ \A m \in moves : Score(board, m) <= Score(board, move)
       /\ (\E m \in moves : lower(board[m[3]][m[4]]) = "q")
            => lower(board[move[3]][move[4]]) = "q"

\* Black has chosen on the board where its knight attacks a queen, a rook
\* and a pawn: the knight takes the queen.
C2_Witness ==
  /\ pc = "chosen"
  /\ board = CAPTURE_BOARD
  /\ turn = "b"
  /\ move = <<3, 3, 5, 4>>
  /\ \E m \in Range(generate_moves(board, turn)) : board[m[3]][m[4]] = "R"

\* C3: after apply_move of any move, the destination holds a White queen if
\* a White pawn was moved to row 0, a Black queen if a Black pawn was moved
\* to row 7, and otherwise the piece that stood on the origin.
C3_Promotion ==
  pc = "applied" =>
    LET m == applied.move
        piece == applied.board[m[1]][m[2]]
        dest == board[m[3]][m[4]]
    IN IF piece = "P" /\ m[3] = 0 THEN dest = "Q"
       ELSE IF piece = "p" /\ m[3] = 7 THEN dest = "q"
       ELSE dest = piece

\* A Black pawn has captured onto row 7 and stands there as a queen.
C3_Witness ==
  /\ pc = "applied"
  /\ applied.board = PROMOTION_BOARD
  /\ applied.move = <<6, 5, 7, 4>>
  /\ board[7][4] = "q"

\* C4: applying a generated move of either side leaves the number of
\* non-empty cells as it was when the destination was empty and lowers it by
\* one when it was occupied; so did the last move played, and the board
\* never holds more than 32 pieces.
C4_Population ==
  LET now == Population(board)
  IN /\ \A s \in Sides :
          \A m \in Range(generate_moves(board, s)) :
            Population(apply_move(board, m)) = now - Captured(board, m)
     /\ applied.by # "nobody" =>
          /\ now = Population(applied.board)
                     - Captured(applied.board, applied.move)
          /\ now <= Population(applied.board)
     /\ now <= 32

\* A capture has been played from a full board: 31 pieces are left.
C4_Witness ==
  /\ applied.by = "human"
  /\ Captured(applied.board, applied.move) = 1
  /\ Population(applied.board) = 32
  /\ Population(board) = 31

\* The generated moves of side s on b that move a piece of the given kind
\* by the given number of rows.
MovesBy(b, s, kind, rows) ==
  LET by_kind(m) == /\ lower(b[m[1]][m[2]]) = kind
                    /\ Abs(m[3] - m[1]) = rows
  IN SelectSeq(generate_moves(b, s), by_kind)

\* C5: on the initial board each side has exactly 20 generated moves: 8
\* single pawn pushes, 8 double pawn pushes and 4 knight moves.
C5_InitialMoves ==
  board = new_board =>
    \A s \in Sides :
      /\ Len(generate_moves(board, s)) = 20
      /\ Cardinality(Range(generate_moves(board, s))) = 20
      /\ Len(MovesBy(board, s, "p", 1)) = 8
      /\ Len(MovesBy(board, s, "p", 2)) = 8
      /\ Len(MovesBy(board, s, "n", 2)) = 4
      /\ \A m \in Range(MovesBy(board, s, "p", 1)) \cup
                  Range(MovesBy(board, s, "p", 2)) : m[4] = m[2]

\* The e-pawn is selected on the initial board, with its two pushes.
C5_Witness ==
  /\ board = new_board
  /\ selected = <<6, 4>>
  /\ legal_for_selected = << <<6, 4, 5, 4>>, <<6, 4, 4, 4>> >>

\* The board is the initial one after the single White move e2-e4.
AfterE4 ==
  /\ plies = 1
  /\ applied.by = "human"
  /\ applied.board = new_board
  /\ applied.move = <<6, 4, 4, 4>>

\* A move of the piece on (r, c) along a diagonal.
DiagonalFrom(m, r, c) ==
  /\ m[1] = r
  /\ m[2] = c
  /\ m[3] # r
  /\ Abs(m[3] - r) = Abs(m[4] - c)

\* C6 as stated: after e2-e4, Black has a diagonal move of the bishop on
\* (0, 5).
C6_BlackBishopFree ==
  AfterE4 =>
    \E m \in Range(generate_moves(board, "b")) : DiagonalFrom(m, 0, 5)

\* C6 amended: after e2-e4, Black has no move from (0, 5), whose bishop is
\* still shut in by its own pawns; it is White's bishop on (7, 5) that has
\* moves, along the diagonal the pawn opened: to (6, 4), (5, 3), (4, 2),
\* (3, 1) and (2, 0).
C6_WhiteBishopFree ==
  AfterE4 =>
    /\ \A m \in Range(generate_moves(board, "b")) : <<m[1], m[2]>> # <<0, 5>>
    /\ {m \in Range(generate_moves(board, "w")) : <<m[1], m[2]>> = <<7, 5>>}
         = {<<7, 5, 6, 4>>, <<7, 5, 5, 3>>, <<7, 5, 4, 2>>, <<7, 5, 3, 1>>,
            <<7, 5, 2, 0>>}
    /\ \A m \in Range(generate_moves(board, "w")) :
         <<m[1], m[2]>> = <<7, 5>> => DiagonalFrom(m, 7, 5)

\* e2-e4 has been played and the AI is about to reply.
C6_Witness == AfterE4 /\ pc = "ai" /\ board[4][4] = "P" /\ board[6][4] = "."

\* All 8 cells around the king of the side to move hold a piece of its side.
Surrounded ==
  \A sq \in neighbours(turn) : side_of(board[sq[1]][sq[2]]) = turn

\* One of the 8 cells around the king is empty.
Vacated == \E sq \in neighbours(turn) : board[sq[1]][sq[2]] = "."

\* No piece of the side to move other than its king has a generated move.
AroundStuck ==
  \A sq \in Squares \ {king_cell(turn)} :
    cell_moves(board, sq[1], sq[2], turn) = << >>

\* C7 as stated: has_moves is false whenever the king is surrounded by 8
\* friendly pieces, and true once one of the 8 cells is empty.
C7_SurroundedKing ==
  pc = "answered" =>
    /\ Surrounded => answer = FALSE
    /\ Vacated => answer = TRUE

\* C7 amended: has_moves is false when the king is surrounded by 8 friendly
\* pieces and no piece of its side other than the king has a generated move,
\* true when it is surrounded and another piece of its side has a move, and
\* true once one of the 8 cells is empty.
C7_SurroundedAndStuck ==
  pc = "answered" =>
    /\ (Surrounded /\ AroundStuck) => answer = FALSE
    /\ (Surrounded /\ ~AroundStuck) => answer = TRUE
    /\ Vacated => answer = TRUE

\* has_moves has answered false for a king shut in by 8 pieces of its side.
C7_Witness == pc = "answered" /\ Surrounded /\ AroundStuck /\ answer = FALSE

\* C8: the cached legal_for_selected is exactly the generated moves of White
\* on the current board that start on the selected square, and every move
\* the human applied was applied on White's turn, was a generated move of
\* White on the board it was applied to, and started on the square selected
\* then.
C8_HumanMovesLegal ==
  /\ selected # None =>
       /\ turn = "w"
       /\ Range(legal_for_selected)
            = {m \in Range(generate_moves(board, "w")) :
                 <<m[1], m[2]>> = selected}
  /\ selected = None => legal_for_selected = << >>
  /\ applied.by = "human" =>
       /\ applied.turn = "w"
       /\ applied.move \in Range(generate_moves(applied.board, "w"))
       /\ <<applied.move[1], applied.move[2]>> = applied.selected

\* The human has made a second move, after the AI's reply to the first.
C8_Witness ==
  /\ applied.by = "human"
  /\ plies = 3
  /\ turn = "b"
  /\ board = apply_move(applied.board, applied.move)

\* C9: a step of the AI's turn taken when Black has no generated move leaves
\* the board as it is, calls apply_move for nobody, and sets the
\* Black-has-no-moves message in status_text.
C9_NoMoveNoApply ==
  [][(pc = "ai" /\ ~has_moves(board, "b")) =>
       /\ board' = board
       /\ applied' = applied
       /\ plies' = plies
       /\ move' = None
       /\ BLACK_OVER \in Range(status_text')]_vars

\* The AI has just found no move: the board is the one the human left.
C9_Witness ==
  /\ pc = "check"
  /\ turn = "w"
  /\ move = None
  /\ applied.by = "human"
  /\ board = apply_move(applied.board, applied.move)
  /\ ~has_moves(board, "b")
  /\ status_text = << BLACK_OVER >>

\* C10: status_text has the combined form only when neither side has a
\* move; at the top of the loop, with only Black out of moves, it is the
\* single message.
C10_CombinedOnlyWhenBoth ==
  /\ BLACK_TOO \in Range(status_text) =>
       (~has_moves(board, "w") /\ ~has_moves(board, "b"))
  /\ (pc = "events" /\ turn = "w" /\ has_moves(board, "w")
        /\ ~has_moves(board, "b")) =>
       status_text = << BLACK_OVER >>

====
